---- MODULE Spec2Model ----
(***************************************************************************)
(* A model of CitationRetrievalService                                     *)
(* (app_fatplants/citationAPI/citation_retrieval_module_python.py).        *)
(*                                                                         *)
(* Python strings that the code inspects character by character (the       *)
(* query, extracted entities, the search term, XML element texts) are      *)
(* sequences of one-character strings.  Fixed literals the code only       *)
(* copies are TLA+ strings.                                                *)
(***************************************************************************)
EXTENDS Integers, Sequences, FiniteSets, TLC

VARIABLES
    pc,             \* position of the run of retrieve_and_rank_citations
    query,          \* argument query
    num_citations,  \* argument num_citations
    ncbi_api_key,   \* self.ncbi_api_key: TRUE when it is a non-empty string
    current_year,   \* datetime.now().year
    entities,       \* list returned by _extract_entities (order of a set)
    search_term,    \* " ".join(entities)
    requests,       \* remote requests issued so far, in order
    pubmed_ids,     \* identifier list read from the ESearch body
    root,           \* parsed EFetch document: its PubmedArticle elements
    raw_citations,  \* list returned by _search_pubmed
    ranked_citations, \* list returned by _rank_citations
    result,         \* value returned by retrieve_and_rank_citations
    raised,         \* exception that left retrieve_and_rank_citations
    stages          \* stages entered so far, in order

vars == <<pc, query, num_citations, ncbi_api_key, current_year, entities,
          search_term, requests, pubmed_ids, root, raw_citations,
          ranked_citations, result, raised, stages>>

----------------------------------------------------------------------------
(* Bounds of the model *)

MaxQueryLen == 4
MaxArticles == 3
MaxIds == 2
MaxCount == 2
MaxRankLen == 3

----------------------------------------------------------------------------
(* Characters and strings *)

LowerAlpha ==
    <<"a","b","c","d","e","f","g","h","i","j","k","l","m","n","o","p","q","r",
      "s","t","u","v","w","x","y","z">>
UpperAlpha ==
    <<"A","B","C","D","E","F","G","H","I","J","K","L","M","N","O","P","Q","R",
      "S","T","U","V","W","X","Y","Z">>
DigitChars == <<"0","1","2","3","4","5","6","7","8","9">>

Range(s) == {s[i] : i \in DOMAIN s}

LowerSet == Range(LowerAlpha)
UpperSet == Range(UpperAlpha)
DigitSet == Range(DigitChars)
WordSet == LowerSet \cup UpperSet \cup DigitSet \cup {"_"}

IsLower(c) == c \in LowerSet
IsUpper(c) == c \in UpperSet
IsDigit(c) == c \in DigitSet
IsSpace(c) == c \in {" ", "\t", "\n"}

\* \w of the re module on the characters of the model
IsWordChar(c) == c \in WordSet

\* [A-Z0-9]
IsSymbolChar(c) == c \in UpperSet \/ c \in DigitSet

ToLowerMap == [c \in UpperSet |-> LowerAlpha[CHOOSE i \in DOMAIN UpperAlpha : UpperAlpha[i] = c]]
ToUpperMap == [c \in LowerSet |-> UpperAlpha[CHOOSE i \in DOMAIN LowerAlpha : LowerAlpha[i] = c]]

LowerChar(c) == IF c \in UpperSet THEN ToLowerMap[c] ELSE c
UpperChar(c) == IF c \in LowerSet THEN ToUpperMap[c] ELSE c

\* str.lower(), str.upper()
Lower(s) == [i \in DOMAIN s |-> LowerChar(s[i])]
Upper(s) == [i \in DOMAIN s |-> UpperChar(s[i])]

\* sub in s
Contains(s, sub) ==
    \E i \in 1..(Len(s) - Len(sub) + 1) : SubSeq(s, i, i + Len(sub) - 1) = sub

\* str.strip()
RECURSIVE LStrip(_)
LStrip(s) == IF s # <<>> /\ IsSpace(Head(s)) THEN LStrip(Tail(s)) ELSE s
RECURSIVE RStrip(_)
RStrip(s) ==
    IF s # <<>> /\ IsSpace(s[Len(s)]) THEN RStrip(SubSeq(s, 1, Len(s) - 1)) ELSE s
Strip(s) == RStrip(LStrip(s))

\* sep.join(parts)
RECURSIVE Join(_, _)
Join(sep, parts) ==
    IF parts = <<>> THEN <<>>
    ELSE IF Len(parts) = 1 THEN parts[1]
    ELSE parts[1] \o sep \o Join(sep, Tail(parts))

\* The sequences over S of length at most n
SeqsUpTo(S, n) == UNION {[1..k -> S] : k \in 0..n}

\* The orders in which the elements of a finite set can be listed
Orderings(S) ==
    {f \in [1..Cardinality(S) -> S] : \A i, j \in 1..Cardinality(S) : f[i] = f[j] => i = j}

----------------------------------------------------------------------------
(* _extract_entities *)

\* re.findall(r'\b\w+\b', s): the maximal runs of word characters
RECURSIVE WordRunEnd(_, _)
WordRunEnd(s, i) ==
    IF i < Len(s) /\ IsWordChar(s[i + 1]) THEN WordRunEnd(s, i + 1) ELSE i

RECURSIVE FindWordsFrom(_, _)
FindWordsFrom(s, i) ==
    IF i > Len(s) THEN <<>>
    ELSE IF ~IsWordChar(s[i]) THEN FindWordsFrom(s, i + 1)
    ELSE LET j == WordRunEnd(s, i)
         IN  <<SubSeq(s, i, j)>> \o FindWordsFrom(s, j + 1)

FindWords(s) == FindWordsFrom(s, 1)

\* \b before position i (s[i] is a word character)
BoundaryBefore(s, i) == i = 1 \/ ~IsWordChar(s[i - 1])
\* \b after position e (s[e] is a word character)
BoundaryAfter(s, e) == e = Len(s) \/ ~IsWordChar(s[e + 1])

RECURSIVE SymbolRunEnd(_, _)
SymbolRunEnd(s, i) ==
    IF i < Len(s) /\ IsSymbolChar(s[i + 1]) THEN SymbolRunEnd(s, i + 1) ELSE i

\* The end of the match of [A-Z0-9]+(?:[-_][A-Z0-9]+)*\b that starts at i, or
\* 0 when there is none.  Every run is greedy and cannot be shortened (the
\* character after a shortened run is in [A-Z0-9], so neither [-_] nor \b
\* matches there); the engine takes as many groups as it can and gives the
\* last ones back until \b holds.
RECURSIVE GeneMatchEnd(_, _)
GeneMatchEnd(s, i) ==
    LET e == SymbolRunEnd(s, i)
        more == IF /\ e + 2 <= Len(s)
                   /\ s[e + 1] \in {"-", "_"}
                   /\ IsSymbolChar(s[e + 2])
                THEN GeneMatchEnd(s, e + 2)
                ELSE 0
    IN  IF more # 0 THEN more
        ELSE IF BoundaryAfter(s, e) THEN e
        ELSE 0

\* re.findall(gene_protein_pattern, s)
RECURSIVE FindGenesFrom(_, _)
FindGenesFrom(s, i) ==
    IF i > Len(s) THEN <<>>
    ELSE IF IsSymbolChar(s[i]) /\ BoundaryBefore(s, i) /\ GeneMatchEnd(s, i) # 0
    THEN LET e == GeneMatchEnd(s, i)
         IN  <<SubSeq(s, i, e)>> \o FindGenesFrom(s, e + 1)
    ELSE FindGenesFrom(s, i + 1)

FindGenes(s) == FindGenesFrom(s, 1)

INTERACTION == <<"i","n","t","e","r","a","c","t","i","o","n">>
INTERACT == <<"i","n","t","e","r","a","c","t">>

stop_words == {
    <<"a">>, <<"a","n">>, <<"t","h","e">>, <<"i","s">>, <<"a","r","e">>, <<"a","n","d">>,
    <<"o","r">>, <<"i","n">>, <<"o","n">>, <<"w","i","t","h">>, <<"f","o","r">>,
    <<"o","f">>, <<"w","h","a","t">>, <<"w","h","i","c","h">>, <<"h","o","w">>,
    <<"w","h","e","n">>, <<"w","h","e","r","e">>, <<"w","h","y">>, <<"r","o","l","e">>,
    <<"e","f","f","e","c","t">>, <<"a","b","o","u","t">>, <<"t","e","l","l">>,
    <<"s","h","o","w">>, <<"m","e">>, <<"g","e","n","e","s">>,
    <<"p","r","o","t","e","i","n","s">>, <<"p","a","t","h","w","a","y","s">>
}

\* Step 1 without the length check of line 36
GeneEntitiesAnyLength(q) ==
    LET ms == FindGenes(q)
    IN  {Upper(ms[k]) : k \in DOMAIN ms}

\* Step 1 (lines 34-37): the symbol candidates longer than one character,
\* uppercased
GeneEntities(q) ==
    LET ms == FindGenes(q)
    IN  {Upper(ms[k]) : k \in {n \in DOMAIN ms : Len(ms[n]) > 1}}

\* Step 2: the interaction keywords
InteractionEntities(q) ==
    (IF Contains(Lower(q), INTERACTION) THEN {INTERACTION} ELSE {})
        \cup (IF Contains(Lower(q), INTERACT) THEN {INTERACT} ELSE {})

\* Step 3: the loop over the words, unique_entities growing as it goes
RECURSIVE AddWords(_, _)
AddWords(unique_entities, words) ==
    IF words = <<>> THEN unique_entities
    ELSE LET word == Head(words)
             keep == /\ word \notin stop_words
                     /\ Len(word) > 2
                     /\ (Upper(word) \notin unique_entities \/ Len(word) > 3)
         IN  AddWords(IF keep THEN unique_entities \cup {word} ELSE unique_entities,
                      Tail(words))

\* The set the code builds (unique_entities at line 62)
extract_entities(q) ==
    AddWords(GeneEntities(q) \cup InteractionEntities(q), FindWords(Lower(q)))

----------------------------------------------------------------------------
(* Remote responses *)

\* An ESearch response as the code reads it: whether requests.get returned,
\* the HTTP status, whether the body is JSON, and the shape of the JSON value:
\* the kind of the top-level value, of its member "esearchresult", of that
\* member's "idlist", and the kinds of the elements of the idlist.
ESearchResponse(transport_ok, status, json_ok, top, esr, idl, ids) ==
    [transport_ok |-> transport_ok, status |-> status, json_ok |-> json_ok,
     top |-> top, esr |-> esr, idl |-> idl, ids |-> ids]

ESearchResponses ==
    {ESearchResponse(FALSE, 0, FALSE, "none", "absent", "absent", <<>>),
     ESearchResponse(TRUE, 500, FALSE, "none", "absent", "absent", <<>>),
     ESearchResponse(TRUE, 200, FALSE, "none", "absent", "absent", <<>>),
     ESearchResponse(TRUE, 200, TRUE, "list", "absent", "absent", <<>>),
     ESearchResponse(TRUE, 200, TRUE, "obj", "absent", "absent", <<>>),
     ESearchResponse(TRUE, 200, TRUE, "obj", "list", "absent", <<>>),
     ESearchResponse(TRUE, 200, TRUE, "obj", "obj", "absent", <<>>),
     ESearchResponse(TRUE, 200, TRUE, "obj", "obj", "null", <<>>)}
    \cup {ESearchResponse(TRUE, 200, TRUE, "obj", "obj", "list", ids) :
            ids \in SeqsUpTo({"str", "num"}, MaxIds)}

\* An XML element the code looks up with find(): absent (find returns None),
\* or present with its text (<<>> when the text is None or "")
Absent == [present |-> FALSE, text |-> <<>>]
Elem(text) == [present |-> TRUE, text |-> text]

NoPubDate == [present |-> FALSE, Year |-> Absent, Month |-> Absent, Day |-> Absent]
PubDate(y, m, d) == [present |-> TRUE, Year |-> y, Month |-> m, Day |-> d]

Article(title, authors, journal, pubdate, types) ==
    [ArticleTitle |-> title, AuthorList |-> authors, Journal |-> journal,
     PubDate |-> pubdate, PublicationTypeList |-> types]

Author(last, fore, initials) ==
    [LastName |-> last, ForeName |-> fore, Initials |-> initials]

\* The PubmedArticle elements the EFetch documents of the model are made of
ArticleSamples ==
    {\* a complete record, month given by name
     Article(Elem(<<" ","G"," ","X">>),
             <<Author(Elem(<<"L","i">>), Elem(<<"J","o">>), Elem(<<"J">>)),
               Author(Elem(<<"W","u">>), Elem(<<"A","l">>), Absent),
               Author(Absent, Absent, Absent)>>,
             Elem(<<"N","a","t">>),
             PubDate(Elem(<<"2","0","2","2">>), Elem(<<"J","a","n">>), Absent),
             <<"Review">>),
     \* a PubDate without a Year, no authors
     Article(Elem(<<"A","/","B">>), <<>>, Elem(<<"J">>),
             PubDate(Absent, Elem(<<"0","5">>), Absent),
             <<"Letter", "">>),
     \* no PubDate at all, no authors
     Article(Elem(<<"C">>), <<>>, Absent, NoPubDate, <<"Journal Article">>),
     \* a year datetime() cannot take
     Article(Elem(<<"D">>), <<Author(Elem(<<"K">>), Absent, Absent)>>, Elem(<<"J">>),
             PubDate(Elem(<<"9","9","9","9","9","9","9","9","9","9","9">>), Absent, Absent),
             <<"Review">>),
     \* no title, a day the month does not have, two types
     Article(Absent, <<Author(Absent, Elem(<<"A","l">>), Absent)>>, Elem(<<>>),
             PubDate(Elem(<<"2","0","2","5">>), Elem(<<"0","2">>), Elem(<<"3","0">>)),
             <<"Case Reports", "Journal Article">>)}

\* An EFetch response: transport, status, whether the body is XML, and the
\* PubmedArticle elements of the document
EFetchResponse(transport_ok, status, xml_ok, articles) ==
    [transport_ok |-> transport_ok, status |-> status, xml_ok |-> xml_ok,
     articles |-> articles]

EFetchResponses ==
    {EFetchResponse(FALSE, 0, FALSE, <<>>),
     EFetchResponse(TRUE, 404, FALSE, <<>>),
     EFetchResponse(TRUE, 200, FALSE, <<>>)}
    \cup {EFetchResponse(TRUE, 200, TRUE, as) : as \in SeqsUpTo(ArticleSamples, MaxArticles)}

\* Response.raise_for_status() raises HTTPError
StatusRaises(status) == 400 <= status /\ status < 600

----------------------------------------------------------------------------
(* _search_pubmed: the ESearch body *)

NoException == "none"

\* Lines 97-110: what the try block and the check after it make of a response.
\* returns_empty: the function returns []; exc: the exception that leaves it.
ReadESearch(r) ==
    IF ~r.transport_ok \/ StatusRaises(r.status) \/ ~r.json_ok
    THEN \* RequestException, HTTPError or JSONDecodeError: caught
         [exc |-> NoException, returns_empty |-> TRUE, ids |-> <<>>]
    ELSE IF r.top # "obj"
    THEN \* esearch_data.get: the value has no attribute get
         [exc |-> "AttributeError", returns_empty |-> FALSE, ids |-> <<>>]
    ELSE IF r.esr \notin {"absent", "obj"}
    THEN \* .get("idlist", []) on a value that is no dict
         [exc |-> "AttributeError", returns_empty |-> FALSE, ids |-> <<>>]
    ELSE IF r.esr = "obj" /\ r.idl = "null"
    THEN \* len(pubmed_ids) of None
         [exc |-> "TypeError", returns_empty |-> FALSE, ids |-> <<>>]
    ELSE LET ids == IF r.esr = "obj" /\ r.idl = "list" THEN r.ids ELSE <<>>
         IN  [exc |-> NoException, returns_empty |-> ids = <<>>, ids |-> ids]

\* Line 115: ",".join(pubmed_ids) raises TypeError unless every item is a str
JoinIdsRaises(ids) == \E i \in DOMAIN ids : ids[i] # "str"

\* Lines 127-134: TRUE when the document is parsed, FALSE when the function
\* returns [] (RequestException, HTTPError or ParseError: caught)
EFetchParsed(r) == r.transport_ok /\ ~StatusRaises(r.status) /\ r.xml_ok

----------------------------------------------------------------------------
(* _search_pubmed: parsing one PubmedArticle *)

NA == <<"N","/","A">>

\* "elem is not None and elem.text"
HasText(e) == e.present /\ e.text # <<>>

\* elem.text.strip() if elem is not None and elem.text else "N/A"
TextOrNA(e) == IF HasText(e) THEN Strip(e.text) ELSE NA

\* Lines 148-154: the name parts of one Author element
AuthorNameParts(a) ==
    (IF HasText(a.LastName) THEN <<Strip(a.LastName.text)>> ELSE <<>>)
        \o (IF HasText(a.Initials) THEN <<Strip(a.Initials.text)>>
            ELSE IF HasText(a.ForeName) THEN <<Strip(a.ForeName.text)>>
            ELSE <<>>)

\* Lines 142-157: authors_list
RECURSIVE AuthorsList(_)
AuthorsList(as) ==
    IF as = <<>> THEN <<>>
    ELSE LET parts == AuthorNameParts(Head(as))
         IN  (IF parts # <<>> THEN <<Join(<<" ">>, parts)>> ELSE <<>>)
                 \o AuthorsList(Tail(as))

\* Line 158
AuthorsString(as) ==
    LET authors_list == AuthorsList(as)
    IN  IF authors_list # <<>> THEN Join(<<",", " ">>, authors_list) ELSE NA

IsDigits(s) == s # <<>> /\ \A i \in DOMAIN s : IsDigit(s[i])

DigitValue(c) == (CHOOSE i \in DOMAIN DigitChars : DigitChars[i] = c) - 1

RECURSIVE StripZeros(_)
StripZeros(s) == IF Len(s) > 1 /\ Head(s) = "0" THEN StripZeros(Tail(s)) ELSE s

\* The value of a string of at most 9 significant digits
RECURSIVE IntOfDigits(_)
IntOfDigits(s) ==
    IF s = <<>> THEN 0
    ELSE 10 * IntOfDigits(SubSeq(s, 1, Len(s) - 1)) + DigitValue(s[Len(s)])

\* More significant digits than a C int holds (2147483647)
RECURSIVE DigitsGreater(_, _)
DigitsGreater(a, b) ==
    IF a = <<>> THEN FALSE
    ELSE IF DigitValue(Head(a)) # DigitValue(Head(b))
    THEN DigitValue(Head(a)) > DigitValue(Head(b))
    ELSE DigitsGreater(Tail(a), Tail(b))

ExceedsCInt(s) ==
    LET d == StripZeros(s)
    IN  \/ Len(d) > 10
        \/ Len(d) = 10 /\ DigitsGreater(d, <<"2","1","4","7","4","8","3","6","4","7">>)

IsLeapYear(y) == (y % 4 = 0 /\ y % 100 # 0) \/ y % 400 = 0

DaysInMonth(y, m) ==
    IF m \in {4, 6, 9, 11} THEN 30
    ELSE IF m = 2 THEN (IF IsLeapYear(y) THEN 29 ELSE 28)
    ELSE 31

NoDate == [year |-> 0, month |-> 0, day |-> 0]
Date(y, m, d) == [year |-> y, month |-> m, day |-> d]

\* datetime.strptime(f"{y}-{m}-{d}", "%Y-%m-%d") on parts without "-":
\* NoDate stands for ValueError
Strptime(y, m, d) ==
    IF /\ IsDigits(y) /\ Len(y) = 4
       /\ IsDigits(m) /\ Len(m) <= 2
       /\ IsDigits(d) /\ Len(d) <= 2
    THEN LET yy == IntOfDigits(y)
             mm == IntOfDigits(m)
             dd == IntOfDigits(d)
         IN  IF yy >= 1 /\ mm \in 1..12 /\ dd >= 1 /\ dd <= DaysInMonth(yy, mm)
             THEN Date(yy, mm, dd)
             ELSE NoDate
    ELSE NoDate

\* Lines 163-177.  exc is the exception that leaves the block: AttributeError
\* when there is no PubDate element (pub_date_elem is None at line 164),
\* OverflowError when datetime() is given a year no C int holds.
ParsePubDate(pd) ==
    IF ~pd.present THEN [exc |-> "AttributeError", date |-> NoDate]
    ELSE IF ~HasText(pd.Year) THEN [exc |-> NoException, date |-> NoDate]
    ELSE LET y == Strip(pd.Year.text)
             m == IF HasText(pd.Month) THEN Strip(pd.Month.text) ELSE <<"0","1">>
             d == IF HasText(pd.Day) THEN Strip(pd.Day.text) ELSE <<"0","1">>
             first == Strptime(y, m, d)
         IN  IF first # NoDate THEN [exc |-> NoException, date |-> first]
             ELSE IF ~IsDigits(y) THEN [exc |-> NoException, date |-> NoDate]
             ELSE IF ExceedsCInt(y) THEN [exc |-> "OverflowError", date |-> NoDate]
             ELSE LET yy == IntOfDigits(StripZeros(y))
                  IN  IF yy >= 1 /\ yy <= 9999
                      THEN [exc |-> NoException, date |-> Date(yy, 1, 1)]
                      ELSE [exc |-> NoException, date |-> NoDate]

\* Line 179
RECURSIVE PubTypes(_)
PubTypes(types) ==
    IF types = <<>> THEN <<>>
    ELSE (IF Head(types) # "" THEN <<Head(types)>> ELSE <<>>) \o PubTypes(Tail(types))

Citation(title, authors, journal, publication_date, publication_types) ==
    [title |-> title, authors |-> authors, journal |-> journal,
     publication_date |-> publication_date, publication_types |-> publication_types]

\* Lines 139-188: the body of the try block for one article
ParseArticle(a) ==
    LET pd == ParsePubDate(a.PubDate)
    IN  [exc |-> pd.exc,
         citation |-> Citation(TextOrNA(a.ArticleTitle), AuthorsString(a.AuthorList),
                               TextOrNA(a.Journal), pd.date,
                               PubTypes(a.PublicationTypeList))]

\* The loop with a break in place of the continue of line 195
RECURSIVE ParseLoopBreak(_, _)
ParseLoopBreak(articles, citations) ==
    IF articles = <<>> THEN citations
    ELSE LET r == ParseArticle(Head(articles))
         IN  IF r.exc # NoException THEN citations
             ELSE ParseLoopBreak(Tail(articles), Append(citations, r.citation))

\* Lines 136-195: the loop; an article whose parsing raises is skipped
RECURSIVE ParseLoop(_, _)
ParseLoop(articles, citations) ==
    IF articles = <<>> THEN citations
    ELSE LET r == ParseArticle(Head(articles))
         IN  IF r.exc # NoException
             THEN ParseLoop(Tail(articles), citations)
             ELSE ParseLoop(Tail(articles), Append(citations, r.citation))

----------------------------------------------------------------------------
(* _rank_citations *)

type_priority(pub_type) ==
    CASE pub_type = "Review" -> 3
      [] pub_type \in {"Journal Article", "Clinical Trial", "Meta-Analysis", "Guideline"} -> 2
      [] pub_type = "Case Reports" -> 1
      [] OTHER -> 0

Max(a, b) == IF a >= b THEN a ELSE b
Min(a, b) == IF a <= b THEN a ELSE b

\* Lines 213-215
RECURSIVE MaxTypeScore(_)
MaxTypeScore(types) ==
    IF types = <<>> THEN 0
    ELSE Max(type_priority(Head(types)), MaxTypeScore(Tail(types)))

\* Lines 218-222: the recency added to the score
RecencyScore(citation, year_now) ==
    IF citation.publication_date # NoDate
    THEN Max(0, 10 - (year_now - citation.publication_date.year))
    ELSE 0

\* A score whose type weight recency can reach
get_rank_score_weight10(citation, year_now) ==
    MaxTypeScore(citation.publication_types) * 10 + RecencyScore(citation, year_now)

get_rank_score(citation, year_now) ==
    MaxTypeScore(citation.publication_types) * 100 + RecencyScore(citation, year_now)

\* sorted(..., reverse=True) is stable: an item goes after the items whose key
\* is greater than or equal to its own
RECURSIVE InsertByScore(_, _, _)
InsertByScore(sorted, c, year_now) ==
    IF sorted = <<>> THEN <<c>>
    ELSE IF get_rank_score(Head(sorted), year_now) >= get_rank_score(c, year_now)
    THEN <<Head(sorted)>> \o InsertByScore(Tail(sorted), c, year_now)
    ELSE <<c>> \o sorted

RECURSIVE SortedByScore(_, _, _)
SortedByScore(done, rest, year_now) ==
    IF rest = <<>> THEN done
    ELSE SortedByScore(InsertByScore(done, Head(rest), year_now), Tail(rest), year_now)

Reverse(s) == [i \in DOMAIN s |-> s[Len(s) + 1 - i]]

\* An ascending sort reversed: sorted(citations, key=get_rank_score)[::-1]
rank_citations_reversed(citations, year_now) ==
    SortedByScore(<<>>, Reverse(citations), year_now)

rank_citations(citations, year_now) == SortedByScore(<<>>, citations, year_now)

----------------------------------------------------------------------------
(* _format_citation *)

\* urllib.parse.quote_plus on one character
PercentCodes ==
    [c \in {"/", ",", ":", "'", "(", ")", "?", "&", "=", "+", "%", "#"} |->
        CASE c = "/" -> <<"%","2","F">>
          [] c = "," -> <<"%","2","C">>
          [] c = ":" -> <<"%","3","A">>
          [] c = "'" -> <<"%","2","7">>
          [] c = "(" -> <<"%","2","8">>
          [] c = ")" -> <<"%","2","9">>
          [] c = "?" -> <<"%","3","F">>
          [] c = "&" -> <<"%","2","6">>
          [] c = "=" -> <<"%","3","D">>
          [] c = "+" -> <<"%","2","B">>
          [] c = "%" -> <<"%","2","5">>
          [] c = "#" -> <<"%","2","3">>]

QuoteChar(c) ==
    IF IsWordChar(c) \/ c \in {".", "-", "~"} THEN <<c>>
    ELSE IF c = " " THEN <<"+">>
    ELSE PercentCodes[c]

RECURSIVE quote_plus(_)
quote_plus(s) == IF s = <<>> THEN <<>> ELSE QuoteChar(Head(s)) \o quote_plus(Tail(s))

Line(label, text, suffix) == [label |-> label, text |-> text, suffix |-> suffix]

\* Lines 234-248: the four lines of the formatted string
format_citation(citation) ==
    <<Line("Title of the paper: ", citation.title, ""),
      Line("Authors: ", citation.authors, ""),
      Line("Journal: ", citation.journal, ""),
      Line("[Link](https://www.google.com/search?q=", quote_plus(citation.title),
           "&btnI=I%27m%20Feeling%20Lucky)")>>

----------------------------------------------------------------------------
(* retrieve_and_rank_citations *)

\* A str item of the returned list, and a citation block
\* f"--- Citation {i + 1} ---\n{formatted}"
PlainString(text) == [text |-> text, index |-> 0, lines |-> <<>>]
Block(number, lines) == [text |-> "--- Citation ", index |-> number, lines |-> lines]

FALLBACK == PlainString("Not able to scrape citations for this question.")

\* The return of the commented-out implementation (lines 287-289)
EmptyTermsResultOld == <<>>

\* Line 261
EmptyTermsResult == <<FALLBACK>>

\* Line 266
NoCitationsResult == <<FALLBACK>>

\* s[:n]
Slice(s, n) ==
    IF n >= 0 THEN SubSeq(s, 1, Min(n, Len(s)))
    ELSE SubSeq(s, 1, Max(0, Len(s) + n))

\* The loop over the whole ranked list, the [:num_citations] of line 271 left out
FormatBlocksAll(ranked, n) ==
    [i \in DOMAIN ranked |-> Block(i, format_citation(ranked[i]))]

\* Lines 270-272
FormatBlocks(ranked, n) ==
    LET top == Slice(ranked, n)
    IN  [i \in DOMAIN top |-> Block(i, format_citation(top[i]))]

Request(kind, term, retmax, ids) ==
    [kind |-> kind, term |-> term, retmax |-> retmax, ids |-> ids]

\* Lines 256-261: entity extraction and the empty-term return
Extract ==
    /\ pc = "start"
    /\ \E order \in Orderings(extract_entities(query)) :
        /\ entities' = order
        /\ search_term' = Join(<<" ">>, order)
    /\ stages' = Append(stages, "Extract")
    /\ IF Strip(search_term') = <<>>
       THEN /\ result' = EmptyTermsResult
            /\ pc' = "done"
       ELSE /\ result' = result
            /\ pc' = "search"
    /\ UNCHANGED <<query, num_citations, ncbi_api_key, current_year, requests,
                   pubmed_ids, root, raw_citations, ranked_citations, raised>>

\* Lines 263, 72-110: the call of _search_pubmed up to the ESearch result
ESearch ==
    /\ pc = "search"
    /\ stages' = Append(stages, "Search")
    /\ IF Strip(search_term) = <<>> \/ ~ncbi_api_key
       THEN /\ raw_citations' = <<>>
            /\ pc' = "searched"
            /\ UNCHANGED <<requests, pubmed_ids, raised>>
       ELSE \E resp \in ESearchResponses :
              LET r == ReadESearch(resp)
              IN  /\ requests' = Append(requests,
                        Request("esearch", search_term, num_citations * 2, <<>>))
                  /\ pubmed_ids' = r.ids
                  /\ raised' = r.exc
                  /\ raw_citations' = <<>>
                  /\ pc' = IF r.exc # NoException THEN "raised"
                           ELSE IF r.returns_empty THEN "searched"
                           ELSE "efetch"
    /\ UNCHANGED <<query, num_citations, ncbi_api_key, current_year, entities,
                   search_term, root, ranked_citations, result>>

\* Lines 112-134: the EFetch request
EFetch ==
    /\ pc = "efetch"
    /\ IF JoinIdsRaises(pubmed_ids)
       THEN /\ raised' = "TypeError"
            /\ pc' = "raised"
            /\ UNCHANGED <<requests, root>>
       ELSE \E resp \in EFetchResponses :
              /\ requests' = Append(requests,
                    Request("efetch", <<>>, 0, pubmed_ids))
              /\ raised' = raised
              /\ IF EFetchParsed(resp)
                 THEN /\ root' = resp.articles
                      /\ pc' = "parse"
                 ELSE /\ root' = root
                      /\ pc' = "searched"
    /\ UNCHANGED <<query, num_citations, ncbi_api_key, current_year, entities,
                   search_term, pubmed_ids, raw_citations, ranked_citations,
                   result, stages>>

\* Lines 136-198: the loop over the articles and the return of _search_pubmed
ParseRecords ==
    /\ pc = "parse"
    /\ raw_citations' = ParseLoop(root, <<>>)
    /\ pc' = "searched"
    /\ UNCHANGED <<query, num_citations, ncbi_api_key, current_year, entities,
                   search_term, requests, pubmed_ids, root, ranked_citations,
                   result, raised, stages>>

\* Lines 264-266
CheckCitations ==
    /\ pc = "searched"
    /\ IF raw_citations = <<>>
       THEN /\ result' = NoCitationsResult
            /\ pc' = "done"
       ELSE /\ result' = result
            /\ pc' = "rank"
    /\ UNCHANGED <<query, num_citations, ncbi_api_key, current_year, entities,
                   search_term, requests, pubmed_ids, root, raw_citations,
                   ranked_citations, raised, stages>>

\* Line 268
Rank ==
    /\ pc = "rank"
    /\ ranked_citations' = rank_citations(raw_citations, current_year)
    /\ stages' = Append(stages, "Rank")
    /\ pc' = "format"
    /\ UNCHANGED <<query, num_citations, ncbi_api_key, current_year, entities,
                   search_term, requests, pubmed_ids, root, raw_citations,
                   result, raised>>

\* Lines 270-274
Format ==
    /\ pc = "format"
    /\ result' = FormatBlocks(ranked_citations, num_citations)
    /\ stages' = Append(stages, "Format")
    /\ pc' = "done"
    /\ UNCHANGED <<query, num_citations, ncbi_api_key, current_year, entities,
                   search_term, requests, pubmed_ids, root, raw_citations,
                   ranked_citations, raised>>

----------------------------------------------------------------------------
(* Inputs *)

CurrentYears == {2025, 2026}

SampleQueries ==
    {<<>>,
     <<" ">>,
     <<"t","h","e"," ","o","f">>,
     <<"W","h","y"," ","a"," ","T","?">>,
     <<"A","P","O","E"," ","i","n">>,
     <<"h","o","w"," ","g","e","n","e","s"," ","i","n","t","e","r","a","c","t">>,
     <<"T","1"," ","i","n","t","e","r","a","c","t","i","o","n">>}

Fresh ==
    /\ entities = <<>>
    /\ search_term = <<>>
    /\ requests = <<>>
    /\ pubmed_ids = <<>>
    /\ root = <<>>
    /\ raw_citations = <<>>
    /\ ranked_citations = <<>>
    /\ result = <<>>
    /\ raised = NoException
    /\ stages = <<>>

Init ==
    /\ pc = "start"
    /\ query \in SampleQueries
    /\ num_citations \in -2..MaxCount
    /\ ncbi_api_key \in BOOLEAN
    /\ current_year = 2026
    /\ Fresh

Next ==
    \/ Extract
    \/ ESearch
    \/ EFetch
    \/ ParseRecords
    \/ CheckCitations
    \/ Rank
    \/ Format

Spec == Init /\ [][Next]_vars

\* _extract_entities on every query over QueryAlphabet
QueryAlphabet == {"t", "h", "e", "T", "H", "E", "1", "-", "_", " "}

InitExtract ==
    /\ pc = "start"
    /\ query \in SeqsUpTo(QueryAlphabet, MaxQueryLen)
    /\ num_citations = 3
    /\ ncbi_api_key = TRUE
    /\ current_year = 2026
    /\ Fresh

NextExtract == Extract

SpecExtract == InitExtract /\ [][NextExtract]_vars

\* _rank_citations on every list of records of these types and dates
RankTypes ==
    {<<>>, <<"Preprint">>, <<"Case Reports", "Comment">>, <<"Journal Article">>,
     <<"Review">>}
RankDates ==
    {NoDate, Date(2010, 1, 1), Date(2026, 1, 1), Date(2027, 1, 1), Date(2116, 1, 1)}

RankTitle(i) == <<"T", DigitChars[i + 1]>>

\* The list whose i-th record has title Ti and the date and types shapes[i]
RankInput(shapes) ==
    [i \in DOMAIN shapes |-> Citation(RankTitle(i), NA, NA, shapes[i][1], shapes[i][2])]

InitRank ==
    /\ pc = "rank"
    /\ query = <<>>
    /\ num_citations = 3
    /\ ncbi_api_key = TRUE
    /\ current_year \in CurrentYears
    /\ entities = <<>>
    /\ search_term = <<>>
    /\ requests = <<>>
    /\ pubmed_ids = <<>>
    /\ root = <<>>
    /\ \E k \in 1..MaxRankLen : \E shapes \in [1..k -> RankDates \X RankTypes] :
            raw_citations = RankInput(shapes)
    /\ ranked_citations = <<>>
    /\ result = <<>>
    /\ raised = NoException
    /\ stages = <<>>

NextRank == Rank

SpecRank == InitRank /\ [][NextRank]_vars

----------------------------------------------------------------------------
(* Properties *)

Ended == pc \in {"done", "raised"}

\* _search_pubmed has returned from its parsing loop
Parsed == pc \in {"searched", "rank", "format", "done"} /\ root # <<>>

RequestsOfKind(kind) == {i \in DOMAIN requests : requests[i].kind = kind}

\* C1: when the extracted term set is empty the run returns exactly the
\* one-element list holding the fallback message, raises nothing and issues no
\* remote request (no identifier search, no record fetch).
C1_EmptyTermsFallback ==
    (pc # "start" /\ entities = <<>>) =>
        /\ pc = "done"
        /\ result = <<FALLBACK>>
        /\ raised = NoException
        /\ requests = <<>>
        /\ stages = <<"Extract">>

C1_Witness ==
    /\ pc = "done"
    /\ query # <<>>
    /\ entities = <<>>
    /\ result = <<FALLBACK>>

\* C2: _search_pubmed never raises to its caller: whatever the two remote
\* calls answer, no exception leaves the run.
C2_SearchNeverRaises == pc # "raised" /\ raised = NoException

\* C3: for every count >= 1 and every non-empty list of r records returned by
\* the search, the run returns exactly min(count, r) blocks, block i carrying
\* the header "--- Citation i ---" and the formatting of the i-th ranked
\* record; the length never exceeds count.
C3_TopCountBlocks ==
    (pc = "done" /\ num_citations >= 1 /\ raw_citations # <<>>) =>
        /\ Len(result) = Min(num_citations, Len(raw_citations))
        /\ Len(result) <= num_citations
        /\ \A i \in DOMAIN result :
            /\ result[i].text = "--- Citation "
            /\ result[i].index = i
            /\ result[i].lines = format_citation(ranked_citations[i])

C3_Witness ==
    /\ pc = "done"
    /\ num_citations = 2
    /\ Len(raw_citations) = 3
    /\ Len(result) = 2
    /\ ranked_citations # raw_citations

\* C4: for every non-positive count the run behaves as if count were 1: it
\* returns the fallback list, or exactly one citation block when at least one
\* record was retrieved; never an empty list, never more than one block.
C4_NonPositiveCountClamped ==
    (pc = "done" /\ num_citations <= 0) =>
        IF raw_citations = <<>>
        THEN result = <<FALLBACK>>
        ELSE /\ Len(result) = 1
             /\ result[1].index = 1
             /\ result[1].lines = format_citation(ranked_citations[1])

\* The position of record c in list s (the records of a list are distinct)
PositionIn(s, c) == CHOOSE i \in DOMAIN s : s[i] = c

\* C5: _rank_citations returns a permutation of its input, ordered by
\* non-increasing score, and records of equal score keep their input order.
C5_StableDescendingPermutation ==
    pc = "format" =>
        /\ Len(ranked_citations) = Len(raw_citations)
        /\ \A i \in DOMAIN raw_citations :
            \E j \in DOMAIN ranked_citations : ranked_citations[j] = raw_citations[i]
        /\ \A i, j \in DOMAIN ranked_citations :
            i < j =>
                /\ ranked_citations[i] # ranked_citations[j]
                /\ get_rank_score(ranked_citations[i], current_year)
                       >= get_rank_score(ranked_citations[j], current_year)
                /\ get_rank_score(ranked_citations[i], current_year)
                       = get_rank_score(ranked_citations[j], current_year)
                   => PositionIn(raw_citations, ranked_citations[i])
                          < PositionIn(raw_citations, ranked_citations[j])

C5_Witness ==
    /\ pc = "format"
    /\ Len(raw_citations) = 3
    /\ get_rank_score(raw_citations[1], current_year)
           < get_rank_score(raw_citations[2], current_year)
    /\ get_rank_score(raw_citations[2], current_year)
           = get_rank_score(raw_citations[3], current_year)
    /\ raw_citations[2].publication_types # raw_citations[3].publication_types
    /\ ranked_citations = <<raw_citations[2], raw_citations[3], raw_citations[1]>>

\* The word tokens of a query, lowercased
QueryTokens(q) == Range(FindWords(Lower(q)))

\* Every token of the query is a stop word or has length <= 2
StopOrShortOnly(q) == \A w \in QueryTokens(q) : w \in stop_words \/ Len(w) <= 2

\* q[i..j] is a symbol candidate: runs of uppercase letters and digits joined
\* by single "-" or "_", standing between word boundaries
IsSymbolCandidate(q, i, j) ==
    /\ IsSymbolChar(q[i]) /\ IsSymbolChar(q[j])
    /\ \A k \in i..j : IsSymbolChar(q[k]) \/ q[k] \in {"-", "_"}
    /\ \A k \in i..(j - 1) : IsSymbolChar(q[k]) \/ IsSymbolChar(q[k + 1])
    /\ i = 1 \/ ~IsWordChar(q[i - 1])
    /\ j = Len(q) \/ ~IsWordChar(q[j + 1])

HasLongSymbolCandidate(q) ==
    \E i, j \in DOMAIN q : i < j /\ IsSymbolCandidate(q, i, j)

\* C6 as stated: every query made only of stop words and tokens of length
\* <= 2, in any letter casing, yields an empty term set.
C6_StopOrShortGivesEmpty ==
    (pc # "start" /\ StopOrShortOnly(query)) => entities = <<>>

\* C6 amended: every query made only of stop words and tokens of length <= 2
\* that holds no symbol candidate longer than one character (no run of
\* uppercase letters and digits, possibly chained with "-" or "_", of two or
\* more characters between word boundaries) yields an empty term set.
C6_StopOrShortWithoutSymbolGivesEmpty ==
    (pc # "start" /\ StopOrShortOnly(query) /\ ~HasLongSymbolCandidate(query)) =>
        entities = <<>>

C6_Witness ==
    /\ pc = "done"
    /\ Len(query) >= 4
    /\ <<"t","h","e">> \in QueryTokens(query)
    /\ \E i \in DOMAIN query : IsUpper(query[i])
    /\ StopOrShortOnly(query)
    /\ ~HasLongSymbolCandidate(query)
    /\ entities = <<>>

\* An article that supplies no year and no authors
NoYearNoAuthors(a) ==
    /\ ~a.PubDate.present \/ ~HasText(a.PubDate.Year)
    /\ a.AuthorList = <<>>

\* C7: a fetched record with no year (its PubDate lacks a Year, or it has no
\* PubDate at all) and no authors is returned by _search_pubmed with no
\* publication date and authors "N/A", and formats with the line "Authors: N/A".
C7_NoYearNoAuthorsKept ==
    Parsed =>
        \A i \in DOMAIN root :
            NoYearNoAuthors(root[i]) =>
                \E j \in DOMAIN raw_citations :
                    /\ raw_citations[j].title = TextOrNA(root[i].ArticleTitle)
                    /\ raw_citations[j].publication_date = NoDate
                    /\ raw_citations[j].authors = NA
                    /\ format_citation(raw_citations[j])[2] = Line("Authors: ", NA, "")

\* Parsing the article raises no exception
ParsesCleanly(a) == ParseArticle(a).exc = NoException

\* C8: the list _search_pubmed returns holds exactly the records that parsed
\* without an exception, in document order, however many records that raise
\* come before or after them.
C8_MalformedRecordsSkipped ==
    Parsed =>
        LET good == SelectSeq(root, ParsesCleanly)
        IN  /\ Len(raw_citations) = Len(good)
            /\ \A i \in DOMAIN good : raw_citations[i] = ParseArticle(good[i]).citation

C8_Witness ==
    /\ Parsed
    /\ Len(root) = 3
    /\ ~ParsesCleanly(root[1])
    /\ ParsesCleanly(root[2])
    /\ ~ParsesCleanly(root[3])
    /\ root[1] # root[3]
    /\ raw_citations = <<ParseArticle(root[2]).citation>>

IsPrefix(s, t) == Len(s) <= Len(t) /\ \A i \in DOMAIN s : s[i] = t[i]

\* C9: every run passes through Extract, Search, Rank, Format in that order,
\* each at most once; the record fetch is issued at most once and only after
\* the identifier search returned at least one identifier; a run ends before
\* Format only by one of the two fallback returns.
C9_SequentialStages ==
    /\ IsPrefix(stages, <<"Extract", "Search", "Rank", "Format">>)
    /\ Cardinality(RequestsOfKind("efetch")) <= 1
    /\ \A i \in RequestsOfKind("efetch") :
        /\ pubmed_ids # <<>>
        /\ \E k \in RequestsOfKind("esearch") : k < i
    /\ (Ended /\ (stages = <<>> \/ stages[Len(stages)] # "Format")) =>
        /\ pc = "done"
        /\ result = <<FALLBACK>>
        /\ entities = <<>> \/ raw_citations = <<>>

HasDate(c) == c.publication_date # NoDate

\* C10 as stated: the recency component lies in 0..10 for every record, and a
\* record of strictly higher maximum type priority precedes every record of
\* lower priority, whatever the dates.
C10_TypeAlwaysDominates ==
    pc = "format" =>
        /\ \A i \in DOMAIN raw_citations :
            RecencyScore(raw_citations[i], current_year) \in 0..10
        /\ \A i, j \in DOMAIN ranked_citations :
            MaxTypeScore(ranked_citations[i].publication_types)
                > MaxTypeScore(ranked_citations[j].publication_types)
            => i < j

\* C10 amended: the recency component is never negative and lies in 0..10
\* when the record has no date or a year not later than the current year; a
\* record of strictly higher maximum type priority precedes a record of lower
\* priority whenever the lower one has no date or a publication year earlier
\* than the current year plus 90 (its recency is then below 100).
C10_TypeDominatesBoundedRecency ==
    pc = "format" =>
        /\ \A i \in DOMAIN raw_citations :
            LET c == raw_citations[i]
            IN  /\ RecencyScore(c, current_year) >= 0
                /\ (~HasDate(c) \/ c.publication_date.year <= current_year)
                       => RecencyScore(c, current_year) <= 10
        /\ \A i, j \in DOMAIN ranked_citations :
            LET hi == ranked_citations[i]
                lo == ranked_citations[j]
            IN  (/\ MaxTypeScore(hi.publication_types) > MaxTypeScore(lo.publication_types)
                 /\ ~HasDate(lo) \/ lo.publication_date.year < current_year + 90)
                => i < j

C10_Witness ==
    /\ pc = "format"
    /\ Len(raw_citations) = 2
    /\ MaxTypeScore(raw_citations[1].publication_types)
           < MaxTypeScore(raw_citations[2].publication_types)
    /\ HasDate(raw_citations[1])
    /\ raw_citations[1].publication_date.year > current_year
    /\ RecencyScore(raw_citations[1], current_year) > 10
    /\ RecencyScore(raw_citations[2], current_year) = 0
    /\ ranked_citations = <<raw_citations[2], raw_citations[1]>>

====
